---- MODULE Spec2Model ----
(***************************************************************************)
(* filters.covariancefeatures (CovarianceFeaturesFilter.cpp): the stage    *)
(* life cycle addArgs -> addDimensions -> prepared -> filter, the worker   *)
(* threads that filter() spawns over static ranges of point ids, and the   *)
(* per-point computation setDimensionality().                              *)
(*                                                                         *)
(* Two filter objects (Runs) are applied, one after the other, to the      *)
(* same point collection with the same options; they differ only in the    *)
(* "threads" option (run 1 uses one thread).                               *)
(*                                                                         *)
(* double values are modelled by exact rationals <<n, d>>; sqrt is exact   *)
(* on the perfect squares the inputs are drawn from.  Results that need    *)
(* eigenvectors, cbrt or log are kept as symbolic terms over their inputs. *)
(***************************************************************************)
EXTENDS Integers, Sequences, FiniteSets, TLC

\* ------------------------------------------------------------ bounds ----
MaxPoints == 3
MaxThreads == 4

Runs == {1, 2}

\* ------------------------------------------------- double arithmetic ----
Abs(x) == IF x < 0 THEN -x ELSE x

RECURSIVE GCD(_, _)
GCD(a, b) == IF b = 0 THEN a ELSE GCD(b, a % b)

(* The values of point fields are records: a double [n, d], a symbolic   *)
(* term, a multiple of 1/pi, or Unset for a slot never written.          *)
\* the double n/d, in lowest terms with a positive denominator
\* (d = 0 is the IEEE infinity 1/0 or NaN 0/0)
Rat(n, d) ==
    LET s == IF d < 0 THEN -1 ELSE 1
        g == GCD(Abs(n), Abs(d))
    IN  IF g = 0 THEN [n |-> 0, d |-> 0]
        ELSE [n |-> (s * n) \div g, d |-> (s * d) \div g]

Zero == Rat(0, 1)
One == Rat(1, 1)
Add(a, b) == Rat(a.n * b.d + b.n * a.d, a.d * b.d)
Sub(a, b) == Rat(a.n * b.d - b.n * a.d, a.d * b.d)
Mul(a, b) == Rat(a.n * b.n, a.d * b.d)
Div(a, b) == Rat(a.n * b.d, a.d * b.n)
Leq(a, b) == a.n * b.d <= b.n * a.d
Max(a, b) == IF Leq(a, b) THEN b ELSE a
Pow3(a) == Mul(a, Mul(a, a))

\* std::sqrt, exact on squares of rationals
ISqrt(n) == CHOOSE r \in 0..n : r * r = n
Sqrt(a) == Rat(ISqrt(a.n), ISqrt(a.d))

\* C++ integer division of two int literals
IntDiv(a, b) == a \div b

\* --------------------------------------------------- program constants --
DefaultMinK == 3
DefaultKnn == 10
DefaultStride == 1

Indeterminate == "indeterminate"
Unknown == "Dimension::Id::Unknown"
Unset == [unset |-> TRUE]

\* the names setDimensionality() looks up in m_extraDims
Catalog == {"Linearity", "Planarity", "Scattering", "Verticality",
            "Omnivariance", "Sum", "Eigenentropy", "Anisotropy",
            "SurfaceVariation", "DemantkeVerticality", "Density"}

DimensionalityDims == <<"Linearity", "Planarity", "Scattering", "Verticality">>

AllDims == <<"Linearity", "Planarity", "Scattering", "Verticality",
             "Omnivariance", "Sum", "Eigenentropy", "Anisotropy",
             "SurfaceVariation", "DemantkeVerticality", "Density">>

\* the fields setDimensionality() and the index read
ReadDims == {"X", "Y", "Z", "OptimalKNN", "OptimalRadius"}

Range(s) == {s[i] : i \in 1..Len(s)}

\* ---------------------------------------------- static partitioning -----
RangeStart_chunk(t, nloops, nthreads) == t * (nloops \div nthreads)

RangeStart(t, nloops, nthreads) == (t * nloops) \div nthreads

RangeEnd(t, nloops, nthreads) ==
    IF t + 1 = nthreads THEN nloops ELSE ((t + 1) * nloops) \div nthreads

\* ------------------------------------------------ setDimensionality -----
point_prev(id) == IF id > 0 THEN id - 1 ELSE id

\* view.point(id)
point(id) == id

\* largest eigenvalue first, negatives clamped to 0
ClampDescending(ev) == <<Max(ev[3], Zero), Max(ev[2], Zero), Max(ev[1], Zero)>>

Accumulate(lambda) == Add(Add(Add(Zero, lambda[1]), lambda[2]), lambda[3])

Scale(mode, lambda, sum) ==
    IF mode = "SQRT"
    THEN <<Sqrt(lambda[1]), Sqrt(lambda[2]), Sqrt(lambda[3])>>
    ELSE IF mode = "NORM"
    THEN <<Div(lambda[1], sum), Div(lambda[2], sum), Div(lambda[3], sum)>>
    ELSE lambda

Linearity(lambda) == Div(Sub(lambda[1], lambda[2]), lambda[1])
Planarity(lambda) == Div(Sub(lambda[2], lambda[3]), lambda[1])
Scattering(lambda) == Div(lambda[3], lambda[1])
Anisotropy(lambda) == Div(Sub(lambda[1], lambda[3]), lambda[1])
SurfaceVariation(lambda, sum) == Div(lambda[3], sum)

\* results of fabs/sqrt over eigenvectors, cbrt and log: terms over inputs
Symbolic(name, lambda, ev) == [term |-> name, lambda |-> lambda, of |-> ev]

\* a / (q * pi), pi = 4.0 * atan(1.0) kept symbolic: the value coef / pi
OverPi(a, q) == [piExp |-> -1, coef |-> Div(a, q)]

Density(kopt, ropt) ==
    OverPi(Add(Rat(kopt, 1), One), Mul(Rat(IntDiv(4, 3), 1), Pow3(ropt)))

DensityGate_always(extraDims, optimal) == "Density" \in DOMAIN extraDims

DensityGate(extraDims, optimal) == "Density" \in DOMAIN extraDims /\ optimal

\* the slots the tail of setDimensionality() writes (lines 225-301)
WrittenSlots(extraDims, optimal) ==
    {s \in (Catalog \ {"Density"}) : s \in DOMAIN extraDims}
        \cup (IF DensityGate(extraDims, optimal) THEN {"Density"} ELSE {})

FeatureValue(s, lambda, sum, ev, kopt, ropt) ==
    CASE s = "Linearity" -> Linearity(lambda)
      [] s = "Planarity" -> Planarity(lambda)
      [] s = "Scattering" -> Scattering(lambda)
      [] s = "Anisotropy" -> Anisotropy(lambda)
      [] s = "SurfaceVariation" -> SurfaceVariation(lambda, sum)
      [] s = "Sum" -> sum
      [] s = "Density" -> Density(kopt, ropt)
      [] OTHER -> Symbolic(s, lambda, ev)

\* the eigen decomposition of the covariance of the neighbourhood of a point
\* is an input: solver.info() and solver.eigenvalues() (increasing order)
Decompose(k) == [info |-> k.info, ev |-> k.ev]

\* kdi.radius(p, m_radius).size(): only the point itself at radius 0.0
RadiusCount(k, radius) == IF radius = Zero THEN 1 ELSE k.nRadius

\* p.getFieldAs(dim)
getFieldAs(tbl, p, dim) ==
    IF dim \in tbl.layout THEN tbl.fields[p][dim] ELSE Zero

\* the conversion of getFieldAs<uint64_t>
AsUInt(x) == IF x.d = 0 THEN 0 ELSE x.n \div x.d

\* m_radiusArg is never assigned: the pointer keeps the indeterminate value
\* it has after construction, and m_radiusArg->set() reads through it.  What
\* the read yields for a given object: true, false, or a fault.
WildPointers == {"true", "false", "fault"}

\* m_radiusArg->set(), evaluated only when m_optimal is false
radiusArgSet(f) == IF f.m_optimal THEN "notread" ELSE f.m_radiusArg

NoWrites == [s \in {} |-> Zero]

\* one call setDimensionality(view, id, kdi)
setDimensionality(f, tbl, v, id) ==
    LET ub == radiusArgSet(f)
        p == point(id)
        k == v.pts[p]
        dec == Decompose(k)
        lambda0 == ClampDescending(dec.ev)
        sum == Accumulate(lambda0)
        lambda == Scale(f.m_mode, lambda0, sum)
        kopt == AsUInt(getFieldAs(tbl, p, f.m_kopt))
        ropt == getFieldAs(tbl, p, f.m_ropt)
        slots == WrittenSlots(f.m_extraDims, f.m_optimal)
    IN  IF ub = "fault"
        THEN [res |-> "fault", msg |-> "", p |-> p, w |-> NoWrites]
        ELSE IF ub = "true" /\ RadiusCount(k, f.m_radius) < f.m_minK
        THEN [res |-> "skipped", msg |-> "", p |-> p, w |-> NoWrites]
        ELSE IF dec.info # "Success"
        THEN [res |-> "threw", msg |-> "Cannot perform eigen decomposition.",
              p |-> p, w |-> NoWrites]
        ELSE IF lambda0[1] = Zero
        THEN [res |-> "threw",
              msg |-> "Eigenvalues are all 0. Can't compute local features.",
              p |-> p, w |-> NoWrites]
        ELSE [res |-> "written", msg |-> "", p |-> p,
              w |-> [s \in slots |->
                        FeatureValue(s, lambda, sum, dec.ev,
                                     kopt, ropt)]]

\* ------------------------------------------------------------ inputs ----
\* eigenvalues as Eigen returns them: increasing, slightly negative allowed
EigenValues == {Rat(-1, 16), Zero, Rat(1, 16), Rat(1, 4), One}

Spectra == {e \in EigenValues \X EigenValues \X EigenValues :
               Leq(e[1], e[2]) /\ Leq(e[2], e[3])}

Good == [nRadius |-> DefaultMinK, info |-> "Success",
         ev |-> <<Zero, Rat(1, 4), One>>, kopt |-> 1, ropt |-> One]

\* too few neighbours in the radius; no convergence; all eigenvalues <= 0
OddKinds == {[Good EXCEPT !.nRadius = DefaultMinK - 1],
             [Good EXCEPT !.info = "NoConvergence"],
             [Good EXCEPT !.ev = <<Rat(-1, 16), Zero, Zero>>]}

GridKinds == [nRadius : {DefaultMinK}, info : {"Success"}, ev : Spectra,
              kopt : {1}, ropt : {Rat(1, 2), Rat(2, 1)}]

\* views of n points: all Good but at most one, which is of a kind in odd
Views(n, odd) ==
    LET good == [i \in 0..(n - 1) |-> Good]
    IN  [n : {n},
         pts : {good} \cup {[good EXCEPT ![j] = k] : j \in 0..(n - 1), k \in odd},
         dims : SUBSET {"OptimalKNN", "OptimalRadius"}]

FeatureList == <<"Density", "Linearity", "X">>

Options(featureChoices, presets, modes, threads) ==
    [optimized : BOOLEAN, radiusGiven : BOOLEAN, features : featureChoices,
     feature_set : presets, mode : modes, threads : threads]

\* ------------------------------------------------------------- state ----
VARIABLES opts, view, flt, table, pc, err, thrown, threads, log

vars == <<opts, view, flt, table, pc, err, thrown, threads, log>>

Final == {"returned", "error", "terminated", "crashed"}

InputValue(k, d) ==
    CASE d = "OptimalKNN" -> Rat(k.kopt, 1)
      [] d = "OptimalRadius" -> k.ropt
      [] OTHER -> [term |-> "position"]

\* CovarianceFeaturesFilter() : Filter() {}  leaves the members unassigned
Constructed(wild) ==
    [m_knn |-> Indeterminate, m_threads |-> Indeterminate,
     m_featureSet |-> Indeterminate, m_extraDims |-> [d \in {} |-> d],
     m_stride |-> Indeterminate, m_radius |-> Indeterminate,
     m_minK |-> Indeterminate, m_featuresArg |-> Indeterminate,
     m_features |-> <<>>, m_mode |-> Indeterminate,
     m_kopt |-> Indeterminate, m_ropt |-> Indeterminate,
     m_radiusArg |-> wild, m_optimal |-> Indeterminate]

\* inputs that no statement reads are not varied: the radius option and the
\* pointer m_radiusArg when "optimized" is on, the OptimalKNN/OptimalRadius
\* dimensions of the layout when it is off
Relevant(o, v, w) ==
    IF o.optimized
    THEN ~o.radiusGiven /\ \A r \in Runs : w[r] = "fault"
    ELSE v.dims = {"OptimalKNN", "OptimalRadius"}

InitWith(optionSet, viewSet, wildSet) ==
    /\ opts \in optionSet
    /\ view \in viewSet
    /\ \E w \in wildSet :
          /\ Relevant(opts, view, w)
          /\ flt = [r \in Runs |-> Constructed(w[r])]
    /\ table = [r \in Runs |->
          LET layout == {"X", "Y", "Z"} \cup view.dims
          IN  [layout |-> layout,
               fields |-> [i \in 0..(view.n - 1) |->
                             [d \in layout |-> InputValue(view.pts[i], d)]]]]
    /\ pc = [r \in Runs |-> "constructed"]
    /\ err = [r \in Runs |-> ""]
    /\ thrown = [r \in Runs |-> ""]
    /\ threads = [r \in Runs |-> [t \in {} |-> 0]]
    /\ log = [r \in Runs |->
                [writes |-> {}, calls |-> {},
                 count |-> [i \in 0..(view.n - 1) |-> 0],
                 outcome |-> [i \in 0..(view.n - 1) |-> "none"]]]

Init ==
    InitWith(Options({<<>>, FeatureList}, {"Dimensionality"}, {""},
                     1..MaxThreads),
             UNION {Views(n, OddKinds) : n \in 0..MaxPoints},
             [Runs -> WildPointers])

InitCatalog ==
    InitWith(Options({<<>>, FeatureList}, {"Dimensionality", "all"},
                     {"", "SQRT", "NORM"}, {1}),
             [n : {1}, pts : {[i \in {0} |-> k] : k \in GridKinds \cup OddKinds},
              dims : {{"OptimalKNN", "OptimalRadius"}, {"OptimalKNN"}}],
             {[r \in Runs |-> g] : g \in WildPointers})

\* the order in which the pipeline calls the stage: the value of pc each
\* callback is entered at
Lifecycle == [addArgs |-> "constructed", addDimensions |-> "args",
              prepared |-> "dims", filter |-> "prepared"]

\* the stage is run on the view once the previous run has ended
Scheduled(r) == r = 1 \/ pc[1] \in Final

\* the "threads" option of a run
ThreadsOption(r) == IF r = 1 THEN 1 ELSE opts.threads

\* ----------------------------------------------------------- actions ----
\* addArgs() and the parsing of the options into the members it binds
addArgs(r) ==
    /\ pc[r] = Lifecycle.addArgs
    /\ Scheduled(r)
    /\ flt' = [flt EXCEPT ![r] =
          [@ EXCEPT !.m_knn = DefaultKnn,
                    !.m_threads = ThreadsOption(r),
                    !.m_featureSet = opts.feature_set,
                    !.m_stride = DefaultStride,
                    !.m_radius = IF opts.radiusGiven THEN One ELSE Zero,
                    !.m_minK = DefaultMinK,
                    !.m_featuresArg = (opts.features # <<>>),
                    !.m_features = opts.features,
                    !.m_mode = opts.mode,
                    !.m_optimal = opts.optimized]]
    /\ pc' = [pc EXCEPT ![r] = "args"]
    /\ UNCHANGED <<opts, view, table, err, thrown, threads, log>>

PresetMode_keep(featureSet, mode) == mode

\* m_mode after the preset branch of addDimensions()
PresetMode(featureSet, mode) ==
    IF featureSet = "Dimensionality" THEN "SQRT" ELSE mode

\* the names addDimensions() registers
RegisteredDims(f) ==
    IF f.m_featuresArg THEN Range(f.m_features)
    ELSE IF f.m_featureSet = "Dimensionality" THEN Range(DimensionalityDims)
    ELSE Range(AllDims)

\* layout->registerOrAssignDim(dim, Double) for every dim of names
registerOrAssignDims(tbl, names) ==
    LET layout == tbl.layout \cup names
    IN  [layout |-> layout,
         fields |-> [i \in DOMAIN tbl.fields |->
                       [d \in layout |-> IF d \in tbl.layout
                                         THEN tbl.fields[i][d] ELSE Unset]]]

addDimensions(r) ==
    /\ pc[r] = Lifecycle.addDimensions
    /\ LET f == flt[r]
           names == RegisteredDims(f)
       IN  /\ flt' = [flt EXCEPT ![r] =
                 [@ EXCEPT !.m_extraDims = [d \in names |-> d],
                           !.m_mode = IF f.m_featuresArg THEN f.m_mode
                                      ELSE PresetMode(f.m_featureSet, f.m_mode)]]
           /\ table' = [table EXCEPT ![r] = registerOrAssignDims(@, names)]
    /\ pc' = [pc EXCEPT ![r] = "dims"]
    /\ UNCHANGED <<opts, view, err, thrown, threads, log>>

\* layout->findDim(name)
findDim(tbl, name) == IF name \in tbl.layout THEN name ELSE Unknown

PreparedError_knnOnly(optimal, tbl) ==
    IF optimal /\ findDim(tbl, "OptimalKNN") = Unknown
    THEN "No dimension \"OptimalKNN\"."
    ELSE ""

\* the message prepared() throws, "" when it returns
PreparedError(optimal, tbl) ==
    IF ~optimal THEN ""
    ELSE IF findDim(tbl, "OptimalKNN") = Unknown
    THEN "No dimension \"OptimalKNN\"."
    ELSE IF findDim(tbl, "OptimalRadius") = Unknown
    THEN "No dimension \"OptimalRadius\"."
    ELSE ""

prepared(r) ==
    /\ pc[r] = Lifecycle.prepared
    /\ LET f == flt[r]
           msg == PreparedError(f.m_optimal, table[r])
           kopt == findDim(table[r], "OptimalKNN")
       IN  /\ flt' = [flt EXCEPT ![r] =
                 [@ EXCEPT !.m_kopt = IF f.m_optimal THEN kopt ELSE @,
                           !.m_ropt = IF f.m_optimal /\ kopt # Unknown
                                      THEN findDim(table[r], "OptimalRadius")
                                      ELSE @]]
           /\ pc' = [pc EXCEPT ![r] = IF msg = "" THEN "prepared" ELSE "error"]
           /\ err' = [err EXCEPT ![r] = msg]
    /\ UNCHANGED <<opts, view, table, thrown, threads, log>>

\* filter(): one turn of the loop that creates the std::threads
filter_spawn(r) ==
    /\ pc[r] \in {Lifecycle.filter, "spawning"}
    /\ LET t == Cardinality(DOMAIN threads[r])
           nloops == view.n
           m == flt[r].m_threads
           start == RangeStart(t, nloops, m)
           end == RangeEnd(t, nloops, m)
       IN  /\ t < m
           /\ threads' = [threads EXCEPT ![r] =
                 [x \in 0..t |-> IF x < t THEN @[x]
                                 ELSE [start |-> start, end |-> end, i |-> start]]]
           /\ pc' = [pc EXCEPT ![r] = IF t + 1 = m THEN "joining" ELSE "spawning"]
    /\ UNCHANGED <<opts, view, flt, table, err, thrown, log>>

\* worker t of filter(): one turn of its loop, setDimensionality(view, i, kdin).
\* An exception leaving the thread function ends the process (std::terminate).
thread_step(r, t) ==
    /\ pc[r] \in {"spawning", "joining"}
    /\ t \in DOMAIN threads[r]
    /\ threads[r][t].i < threads[r][t].end
    /\ LET id == threads[r][t].i
           f == flt[r]
           o == setDimensionality(f, table[r], view, id)
       IN  /\ table' = [table EXCEPT ![r].fields[o.p] =
                 [d \in DOMAIN @ |->
                    IF \E s \in DOMAIN o.w : f.m_extraDims[s] = d
                    THEN o.w[CHOOSE s \in DOMAIN o.w : f.m_extraDims[s] = d]
                    ELSE @[d]]]
           /\ threads' = [threads EXCEPT ![r][t].i =
                 IF o.res \in {"written", "skipped"} THEN @ + 1 ELSE @]
           /\ pc' = [pc EXCEPT ![r] =
                 CASE o.res = "threw" -> "terminated"
                   [] o.res = "fault" -> "crashed"
                   [] OTHER -> @]
           /\ thrown' = [thrown EXCEPT ![r] =
                 IF o.res = "threw" THEN o.msg ELSE @]
           /\ log' = [log EXCEPT
                 ![r].writes = @ \cup {[t |-> t, id |-> id, p |-> o.p,
                                        slot |-> f.m_extraDims[s]] :
                                          s \in DOMAIN o.w},
                 ![r].calls = @ \cup {<<t, id>>},
                 ![r].count[id] = @ + 1,
                 ![r].outcome[id] = o.res]
    /\ UNCHANGED <<opts, view, flt, err>>

\* filter(): every thread joined, return to the caller
filter_join(r) ==
    /\ pc[r] = "joining"
    /\ \A t \in DOMAIN threads[r] : threads[r][t].i = threads[r][t].end
    /\ pc' = [pc EXCEPT ![r] = "returned"]
    /\ UNCHANGED <<opts, view, flt, table, err, thrown, threads, log>>

Next ==
    \E r \in Runs :
        \/ addArgs(r)
        \/ addDimensions(r)
        \/ prepared(r)
        \/ filter_spawn(r)
        \/ \E t \in 0..(MaxThreads - 1) : thread_step(r, t)
        \/ filter_join(r)

Spec == Init /\ [][Next]_vars

SpecCatalog == InitCatalog /\ [][Next]_vars

TypeOK == pc \in [Runs -> {"constructed", "args", "dims", "prepared", "spawning",
                           "joining"} \cup Final]

\* ------------------------------------------------------------ claims ----
Spawned(r) == DOMAIN threads[r]
InRange(r, t, id) == threads[r][t].start <= id /\ id < threads[r][t].end
Size(r, t) == threads[r][t].end - threads[r][t].start
PointIds == 0..(view.n - 1)
Written(r, i, slot) == \E w \in log[r].writes : w.p = i /\ w.slot = slot
BothOptimalDims == {"OptimalKNN", "OptimalRadius"} \subseteq view.dims
FeatureDims(r) == table[r].layout \ ({"X", "Y", "Z"} \cup view.dims)

\* C1: the ranges filter() hands to its workers are [floor(t*N/T),
\* floor((t+1)*N/T)) with the last one ending at N; they are contiguous,
\* do not overlap, cover exactly [0,N) and differ in size by at most one; a
\* point id is processed at most once, only by the worker whose range holds
\* it, and exactly once when filter() returns.
C1_Partition ==
    \A r \in Runs :
        LET T == flt[r].m_threads
            N == view.n
        IN  /\ \A t \in Spawned(r) :
                  /\ threads[r][t].start = (t * N) \div T
                  /\ threads[r][t].end = IF t = T - 1 THEN N
                                         ELSE ((t + 1) * N) \div T
                  /\ threads[r][t].start <= threads[r][t].end
                  /\ t > 0 => threads[r][t].start = threads[r][t - 1].end
                  /\ \A u \in Spawned(r) :
                        Size(r, t) - Size(r, u) \in {-1, 0, 1}
            /\ \A <<t, id>> \in log[r].calls : InRange(r, t, id)
            /\ \A id \in PointIds : log[r].count[id] <= 1
            /\ pc[r] \in {"joining", "returned"} =>
                  /\ Spawned(r) = 0..(T - 1)
                  /\ \A id \in PointIds :
                        Cardinality({t \in Spawned(r) : InRange(r, t, id)}) = 1
                  /\ \A t \in Spawned(r) :
                        threads[r][t].start >= 0 /\ threads[r][t].end <= N
            /\ pc[r] = "returned" =>
                  \A id \in PointIds : log[r].count[id] = 1

C1_Witness ==
    \E r \in Runs :
        /\ pc[r] = "returned"
        /\ flt[r].m_threads >= 2
        /\ view.n >= 3
        /\ view.n % flt[r].m_threads # 0
        /\ \A id \in PointIds : log[r].outcome[id] = "written"

\* C2: a call of setDimensionality for point i writes only registered
\* feature slots of point i: never another point, never a field the workers
\* read (position, OptimalKNN, OptimalRadius), whose values stay as they
\* were; no two workers write the same slot and no worker writes outside its
\* own range.
C2_WritesOwnSlots ==
    \A r \in Runs :
        /\ \A w \in log[r].writes :
              /\ w.p = w.id
              /\ InRange(r, w.t, w.p)
              /\ w.slot \in Catalog
              /\ w.slot \in DOMAIN flt[r].m_extraDims
              /\ w.slot \notin ReadDims
              /\ \A x \in log[r].writes :
                    (x.p = w.p /\ x.slot = w.slot) => x.t = w.t
        /\ \A i \in PointIds : \A d \in ReadDims \cap table[r].layout :
              table[r].fields[i][d] = InputValue(view.pts[i], d)

C2_Witness ==
    \E r \in Runs : \E w, x \in log[r].writes :
        /\ w.t # x.t
        /\ w.p # x.p
        /\ "X" \in DOMAIN flt[r].m_extraDims
        /\ pc[r] = "returned"

\* C3: when the eigen solver fails or the largest eigenvalue is 0 for some
\* point, the run of filter() ends with an error at its caller that carries
\* the message of the failure.
C3_ErrorReachesCaller ==
    \A r \in Runs :
        thrown[r] # "" => (pc[r] = "error" /\ err[r] = thrown[r])

\* C4: in fixed-radius mode (radius given, optimized off) a point whose
\* radius query returns fewer than min_k neighbours raises no error, keeps
\* every feature slot as it was, and its worker moves on to the next point.
C4_SparsePointSkipped ==
    \A r \in Runs : \A i \in PointIds :
        (/\ ~opts.optimized
         /\ opts.radiusGiven
         /\ view.pts[i].nRadius < DefaultMinK
         /\ log[r].outcome[i] # "none")
        => /\ log[r].outcome[i] = "skipped"
           /\ pc[r] \notin {"error", "terminated", "crashed"}
           /\ \A d \in FeatureDims(r) : table[r].fields[i][d] = Unset
           /\ \A <<t, id>> \in log[r].calls :
                 id = i => threads[r][t].i > i

\* C5: the run with one thread and the run with four threads, on the same
\* points with the same options, leave the same value in every slot of
\* every point.
C5_SameResults ==
    (opts.threads = 4 /\ pc[1] = "returned" /\ pc[2] = "returned")
        => table[1].fields = table[2].fields

\* C6: with optimized on and OptimalKNN or OptimalRadius missing from the
\* layout, prepared() raises a configuration error and the run never gets
\* past it: no point has been processed and no feature slot written.
C6_ConfigErrorFirst ==
    \A r \in Runs :
        (opts.optimized /\ ~BothOptimalDims
             /\ pc[r] \notin {"constructed", "args", "dims"})
        => /\ pc[r] = "error"
           /\ err[r] \in {"No dimension \"OptimalKNN\".",
                          "No dimension \"OptimalRadius\"."}
           /\ log[r].calls = {}
           /\ log[r].writes = {}
           /\ \A i \in PointIds : \A d \in FeatureDims(r) :
                 table[r].fields[i][d] = Unset

C6_Witness ==
    \E r \in Runs :
        /\ pc[r] = "error"
        /\ "OptimalKNN" \in view.dims
        /\ "OptimalRadius" \notin view.dims
        /\ view.n > 0

\* C7 as stated: for every point processed to the end, Density is written
\* if and only if optimized mode is on and both Optimal fields are present.
C7_DensityIffOptimized ==
    \A r \in Runs : \A i \in PointIds :
        log[r].outcome[i] = "written" =>
            (Written(r, i, "Density") <=> (opts.optimized /\ BothOptimalDims))

\* C7 amended: for every point processed to the end, Density is written if
\* and only if Density is among the registered features and optimized mode
\* is on with both Optimal fields present; with optimized off the Density
\* slot of every point stays unset.
C7_DensityIffRegisteredAndOptimized ==
    \A r \in Runs : \A i \in PointIds :
        /\ log[r].outcome[i] = "written" =>
              (Written(r, i, "Density") <=>
                  (/\ "Density" \in DOMAIN flt[r].m_extraDims
                   /\ opts.optimized
                   /\ BothOptimalDims))
        /\ log[r].outcome[i] # "written" => ~Written(r, i, "Density")
        /\ (~opts.optimized /\ "Density" \in FeatureDims(r)) =>
              table[r].fields[i]["Density"] = Unset

C7_Witness ==
    \E r \in Runs : \E i \in PointIds :
        /\ Written(r, i, "Density")
        /\ table[r].fields[i]["Density"] # Unset
        /\ pc[r] = "returned"

InUnit(x) == Leq(Zero, x) /\ Leq(x, One)

\* C8: for a spectrum with lambda0 >= lambda1 >= lambda2 >= 0, lambda0 > 0,
\* in every scale mode the written Linearity, Planarity, Anisotropy,
\* SurfaceVariation and Scattering lie in [0,1], and with Raw scaling
\* Linearity + Planarity + Scattering = 1.
C8_ShapeFeaturesInUnitInterval ==
    \A r \in Runs : \A i \in PointIds :
        (log[r].outcome[i] = "written" /\ Leq(Zero, view.pts[i].ev[1])) =>
            /\ \A s \in {"Linearity", "Planarity", "Anisotropy",
                         "SurfaceVariation", "Scattering"} :
                  Written(r, i, s) => InUnit(table[r].fields[i][s])
            /\ (/\ flt[r].m_mode \notin {"SQRT", "NORM"}
                /\ \A s \in {"Linearity", "Planarity", "Scattering"} :
                      Written(r, i, s))
               => Add(Add(table[r].fields[i]["Linearity"],
                          table[r].fields[i]["Planarity"]),
                      table[r].fields[i]["Scattering"]) = One

\* C9: the Density written for a point is (kopt+1) / ((4/3)*pi*ropt^3),
\* four thirds being the rational, kopt and ropt the point's OptimalKNN and
\* OptimalRadius.
C9_DensityIsCountOverSphereVolume ==
    \A r \in Runs : \A i \in PointIds :
        Written(r, i, "Density") =>
            table[r].fields[i]["Density"] =
                OverPi(Rat(view.pts[i].kopt + 1, 1),
                       Mul(Rat(4, 3), Pow3(view.pts[i].ropt)))

C10_Registered(r) ==
    /\ (opts.features = <<>> /\ opts.feature_set = "Dimensionality") =>
          /\ DOMAIN flt[r].m_extraDims =
                {"Linearity", "Planarity", "Scattering", "Verticality"}
          /\ FeatureDims(r) =
                {"Linearity", "Planarity", "Scattering", "Verticality"}
          /\ flt[r].m_mode = "SQRT"
    /\ opts.features # <<>> =>
          /\ DOMAIN flt[r].m_extraDims = Range(opts.features)
          /\ table[r].layout =
                {"X", "Y", "Z"} \cup view.dims \cup Range(opts.features)
          /\ flt[r].m_mode = opts.mode

\* C10: the output slots and the scale mode are fixed before any point is
\* processed and never change afterwards: without a features list and with
\* feature_set "Dimensionality" exactly Linearity, Planarity, Scattering and
\* Verticality are registered and the mode is SQRT; with a features list
\* exactly the listed names are registered and the mode is the mode option.
C10_SlotsAndModeFixedOnce ==
    /\ [](\A r \in Runs :
            IF pc[r] \in {"constructed", "args"}
            THEN log[r].calls = {}
            ELSE C10_Registered(r))
    /\ [][\A r \in Runs :
            pc[r] \notin {"constructed", "args"} =>
                /\ flt'[r].m_extraDims = flt[r].m_extraDims
                /\ flt'[r].m_mode = flt[r].m_mode
                /\ table'[r].layout = table[r].layout]_vars

C10_Witness ==
    \E r \in Runs : \E i \in PointIds :
        /\ pc[r] = "returned"
        /\ log[r].outcome[i] = "written"
        /\ opts.features # <<>>
        /\ opts.feature_set = "Dimensionality"
        /\ opts.mode = "NORM"
====
